---- MODULE Spec2Model ----
(***************************************************************************)
(* SiftEntityMatcherSerializer: a condition object (a MongoDB-style        *)
(* filter) is serialized into a tree of addressable nodes, edited node by  *)
(* node, and deserialized back into a condition object.                    *)
(*                                                                         *)
(* JavaScript values are modelled as tagged records:                       *)
(*   [t |-> "num", v |-> 1]   [t |-> "null"]                               *)
(*   [t |-> "arr", ref |-> r, v |-> <<items>>]                             *)
(*   [t |-> "obj", v |-> << <<key, value>>, ... >>]   (insertion order)    *)
(* The ref of an array is the identity of the array object: NoRef for an   *)
(* array nothing else holds, the id of the condition node whose value the  *)
(* array is when deserialization hands that same array object out.         *)
(***************************************************************************)
EXTENDS Integers, Sequences, FiniteSets, TLC

VARIABLES
    tree,       \* _tree: the root sequence of nodes
    idCounter,  \* _idCounter
    last,       \* the last call on the instance: its name, arguments, result, error
    query,      \* the condition object a round trip starts from (Undefined otherwise)
    issued      \* every id given to a node so far, in the order given

vars == <<tree, idCounter, last, query, issued>>

(***************************************************************************)
(* Bounds of the model.                                                    *)
(***************************************************************************)
\* ids one instance hands out before the model stops creating nodes
MaxIds == 3

\* how deep logical and embedded operators nest in a round-trip input
MaxDepth == 2

(***************************************************************************)
(* JavaScript values.                                                      *)
(***************************************************************************)
NoRef == 0 - 1

\* the parentId of an add* call made without one
NoParent == 0 - 1

Num(n) == [t |-> "num", v |-> n]

Null == [t |-> "null"]

Undefined == [t |-> "undefined"]

Arr(items) == [t |-> "arr", ref |-> NoRef, v |-> items]

Obj(kv) == [t |-> "obj", v |-> kv]

EmptyObj == Obj(<<>>)

\* typeof x === 'object' (true of null and of arrays too)
TypeofObject(x) == x.t \in {"obj", "arr", "null"}

\* the truthiness of a value as an if-condition sees it
Truthy(x) ==
    CASE x.t \in {"obj", "arr"} -> TRUE
      [] x.t = "num" -> x.v # 0
      [] x.t = "str" -> x.v # ""
      [] x.t = "bool" -> x.v
      [] OTHER -> FALSE

HasKey(o, k) == \E i \in 1..Len(o.v) : o.v[i][1] = k

\* o[k]: undefined when o has no property k
Get(o, k) ==
    IF HasKey(o, k)
    THEN o.v[CHOOSE i \in 1..Len(o.v) : o.v[i][1] = k][2]
    ELSE Undefined

\* o[k] = x: a new property goes last, an old one keeps its place
Set(o, k, x) ==
    IF HasKey(o, k)
    THEN Obj([i \in 1..Len(o.v) |-> IF o.v[i][1] = k THEN <<k, x>> ELSE o.v[i]])
    ELSE Obj(Append(o.v, <<k, x>>))

(***************************************************************************)
(* Operator classification.                                                *)
(***************************************************************************)
LogicalOperators == {"$and", "$or", "$not"}

EmbeddedOperators == {"$some", "$every", "$none"}

ComparisonOperators ==
    {"$eq", "$in", "$nin", "$lt", "$gt", "$lte", "$gte", "$ne", "$ilike",
     "$all", "$exists", "$elemMatch"}

isLogicalOperator(key) == key \in LogicalOperators

isEmbeddedOperator(key) == key \in EmbeddedOperators

isComparisonOperator(key) == key \in ComparisonOperators

(***************************************************************************)
(* AST nodes.                                                              *)
(***************************************************************************)
ConditionNode(id, fieldPath, operator, value) ==
    [id |-> id, type |-> "condition", fieldPath |-> fieldPath,
     operator |-> operator, value |-> value]

LogicalNode(id, operator, children) ==
    [id |-> id, type |-> "logical", operator |-> operator, children |-> children]

EmbeddedNode(id, fieldPath, operator, subtree) ==
    [id |-> id, type |-> "embedded", fieldPath |-> fieldPath,
     operator |-> operator, subtree |-> subtree]

\* the null that a failed lookup returns
NullNode == [type |-> "null"]

\* the list a container node owns; a node with neither field owns none
Kids(n) ==
    IF "children" \in DOMAIN n THEN n.children
    ELSE IF "subtree" \in DOMAIN n THEN n.subtree
    ELSE <<>>

RECURSIVE NodesOf(_)
\* every node of a list of nodes, at every depth, in pre-order
NodesOf(nodes) ==
    IF nodes = <<>> THEN <<>>
    ELSE <<Head(nodes)>> \o NodesOf(Kids(Head(nodes))) \o NodesOf(Tail(nodes))

IdsOf(nodes) == LET all == NodesOf(nodes) IN {all[i].id : i \in 1..Len(all)}

(***************************************************************************)
(* serialize: condition object -> AST.  Every operator returns the nodes   *)
(* it built and the id counter after building them.                        *)
(***************************************************************************)
\* _generateId: the id handed out and the counter afterwards
generateId(ctr) == [id |-> ctr, next |-> ctr + 1]

\* an embedded body serialized under the path of its field
EmbeddedContextKeepsPath(currentPath, key) == currentPath \o <<key>>

\* the path the body of an embedded operator is serialized under
EmbeddedContext(currentPath, key) == <<>>

RECURSIVE serializeObject(_, _, _)
RECURSIVE serializeItems(_, _, _, _)
RECURSIVE serializeKeys(_, _, _, _)
RECURSIVE serializeOps(_, _, _, _, _)

\* for (const item of items): serialize each under the same path and flatten
serializeItems(items, i, currentPath, ctr) ==
    IF i > Len(items) THEN [nodes |-> <<>>, ctr |-> ctr]
    ELSE LET h == serializeObject(items[i], currentPath, ctr)
             r == serializeItems(items, i + 1, currentPath, h.ctr)
         IN [nodes |-> h.nodes \o r.nodes, ctr |-> r.ctr]

\* for (const op in fieldValue): the operator keys of a field's value
serializeOps(fieldValue, j, currentPath, key, ctr) ==
    IF j > Len(fieldValue.v) THEN [nodes |-> <<>>, ctr |-> ctr, found |-> FALSE]
    ELSE
      LET op == fieldValue.v[j][1]
          val == fieldValue.v[j][2]
          h == CASE isEmbeddedOperator(op) ->
                      LET s == serializeObject(val, EmbeddedContext(currentPath, key), ctr)
                      IN [nodes |-> <<EmbeddedNode(generateId(s.ctr).id,
                                                     currentPath \o <<key>>, op, s.nodes)>>,
                          ctr |-> generateId(s.ctr).next, found |-> TRUE]
                 [] isComparisonOperator(op) ->
                      [nodes |-> <<ConditionNode(generateId(ctr).id,
                                                  currentPath \o <<key>>, op, val)>>,
                       ctr |-> generateId(ctr).next, found |-> TRUE]
                 [] isLogicalOperator(op) ->
                      LET s == serializeObject(val, currentPath \o <<key>>, ctr)
                      IN [nodes |-> <<LogicalNode(generateId(s.ctr).id, op, s.nodes)>>,
                          ctr |-> generateId(s.ctr).next, found |-> TRUE]
                 [] OTHER -> [nodes |-> <<>>, ctr |-> ctr, found |-> FALSE]
          r == serializeOps(fieldValue, j + 1, currentPath, key, h.ctr)
      IN [nodes |-> h.nodes \o r.nodes, ctr |-> r.ctr, found |-> h.found \/ r.found]

\* one key of the for (const key in obj) loop
serializeKey(key, value, currentPath, ctr) ==
    IF isLogicalOperator(key)
    THEN IF key = "$not"
         THEN LET s == serializeObject(value, currentPath, ctr)
              IN [nodes |-> <<LogicalNode(generateId(s.ctr).id, "$not", s.nodes)>>,
                  ctr |-> generateId(s.ctr).next]
         ELSE LET s == serializeItems(value.v, 1, currentPath, ctr)
              IN [nodes |-> <<LogicalNode(generateId(s.ctr).id, key, s.nodes)>>,
                  ctr |-> generateId(s.ctr).next]
    ELSE LET scan == IF value.t = "obj"
                     THEN serializeOps(value, 1, currentPath, key, ctr)
                     ELSE [nodes |-> <<>>, ctr |-> ctr, found |-> FALSE]
         IN IF ~scan.found /\ value.t \in {"obj", "arr"}
            THEN serializeObject(value, currentPath \o <<key>>, scan.ctr)
            ELSE [nodes |-> scan.nodes, ctr |-> scan.ctr]

serializeKeys(obj, i, currentPath, ctr) ==
    IF i > Len(obj.v) THEN [nodes |-> <<>>, ctr |-> ctr]
    ELSE LET h == serializeKey(obj.v[i][1], obj.v[i][2], currentPath, ctr)
             r == serializeKeys(obj, i + 1, currentPath, h.ctr)
         IN [nodes |-> h.nodes \o r.nodes, ctr |-> r.ctr]

\* a primitive has no enumerable keys that hold objects: it yields no node
serializeObject(obj, currentPath, ctr) ==
    CASE obj.t = "arr" -> serializeItems(obj.v, 1, currentPath, ctr)
      [] obj.t = "obj" -> serializeKeys(obj, 1, currentPath, ctr)
      [] OTHER -> [nodes |-> <<>>, ctr |-> ctr]

(***************************************************************************)
(* deserialize: AST -> condition object.                                   *)
(***************************************************************************)
isNotEmpty(obj) ==
    CASE obj.t \in {"null", "undefined"} -> FALSE
      [] obj.t \in {"arr", "obj"} -> Len(obj.v) > 0
      [] OTHER -> TRUE

RECURSIVE buildNestedObject(_, _)
buildNestedObject(path, condition) ==
    IF Len(path) = 0 THEN condition
    ELSE Obj(<< <<Head(path), buildNestedObject(Tail(path), condition)>> >>)

\* the value of a merge that puts string keys on an array or index keys on
\* an object: no node the editor accepts brings one about
Unmodelled == [t |-> "unmodelled"]

RECURSIVE deepMerge(_, _)
RECURSIVE mergeKeys(_, _, _)
RECURSIVE mergeIndices(_, _, _)

\* the body of the loop for one key: merge into an object already there,
\* otherwise the incoming value (the same object, not a copy) overwrites
mergeValue(old, new) ==
    IF Truthy(old) /\ TypeofObject(old) /\ TypeofObject(new)
    THEN deepMerge(old, new)
    ELSE new

mergeKeys(target, source, i) ==
    IF i > Len(source.v) THEN target
    ELSE LET key == source.v[i][1]
         IN mergeKeys(Set(target, key, mergeValue(Get(target, key), source.v[i][2])),
                      source, i + 1)

\* for (const key in source) over an array visits its indices: the target
\* array is overwritten index by index and keeps its identity and its tail
mergeIndices(target, source, i) ==
    IF i > Len(source.v) THEN target
    ELSE LET old == IF i <= Len(target.v) THEN target.v[i] ELSE Undefined
             new == mergeValue(old, source.v[i])
             items == IF i <= Len(target.v)
                      THEN [target.v EXCEPT ![i] = new]
                      ELSE Append(target.v, new)
         IN mergeIndices([target EXCEPT !.v = items], source, i + 1)

deepMerge(target, source) ==
    CASE source.t = "null" -> target
      [] source.t = "obj" /\ target.t = "obj" -> mergeKeys(target, source, 1)
      [] source.t = "arr" /\ target.t = "arr" -> mergeIndices(target, source, 1)
      [] OTHER -> Unmodelled

RECURSIVE mergeObjectsFrom(_, _, _)
mergeObjectsFrom(result, objects, i) ==
    IF i > Len(objects) THEN result
    ELSE mergeObjectsFrom(deepMerge(result, objects[i]), objects, i + 1)

mergeObjects(objects) == mergeObjectsFrom(EmptyObj, objects, 1)

\* { [node.operator]: node.value }: an array value is the node's own array
ConditionOf(node) ==
    Obj(<< <<node.operator,
             IF node.value.t = "arr"
             THEN [node.value EXCEPT !.ref = node.id]
             ELSE node.value>> >>)

RECURSIVE deserializeNode(_)
RECURSIVE deserializeNodes(_)
RECURSIVE deserializeEach(_, _)

\* each node of a list deserialized on its own, the empty results dropped
deserializeEach(nodes, i) ==
    IF i > Len(nodes) THEN <<>>
    ELSE LET d == deserializeNode(nodes[i])
         IN (IF isNotEmpty(d) THEN <<d>> ELSE <<>>) \o deserializeEach(nodes, i + 1)

deserializeNodes(nodes) == mergeObjects(deserializeEach(nodes, 1))

\* _deserializeNode that emits a $not whatever its children come to
deserializeNodeKeepsNot(node) ==
    CASE node.type = "condition" ->
           buildNestedObject(node.fieldPath, ConditionOf(node))
      [] node.type = "logical" ->
           IF node.operator = "$not"
           THEN Obj(<< <<"$not", deserializeNodes(node.children)>> >>)
           ELSE LET childrenArr == Arr(deserializeEach(node.children, 1))
                IN IF ~isNotEmpty(childrenArr) THEN EmptyObj
                   ELSE Obj(<< <<node.operator, childrenArr>> >>)
      [] node.type = "embedded" ->
           LET inner == deserializeNodes(node.subtree)
           IN IF ~isNotEmpty(inner) THEN EmptyObj
              ELSE buildNestedObject(node.fieldPath, Obj(<< <<node.operator, inner>> >>))
      [] OTHER -> EmptyObj

deserializeNode(node) ==
    CASE node.type = "condition" ->
           buildNestedObject(node.fieldPath, ConditionOf(node))
      [] node.type = "logical" ->
           IF node.operator = "$not"
           THEN LET childObj == deserializeNodes(node.children)
                IN IF ~isNotEmpty(childObj) THEN EmptyObj
                   ELSE Obj(<< <<"$not", childObj>> >>)
           ELSE LET childrenArr == Arr(deserializeEach(node.children, 1))
                IN IF ~isNotEmpty(childrenArr) THEN EmptyObj
                   ELSE Obj(<< <<node.operator, childrenArr>> >>)
      [] node.type = "embedded" ->
           LET inner == deserializeNodes(node.subtree)
           IN IF ~isNotEmpty(inner) THEN EmptyObj
              ELSE buildNestedObject(node.fieldPath, Obj(<< <<node.operator, inner>> >>))
      [] OTHER -> EmptyObj

\* deserialize() without the test for an empty result
deserializeNoNull(nodes) == deserializeNodes(nodes)

\* what deserialize() returns for a tree: null in place of an empty result
deserialize(nodes) ==
    LET deserialized == deserializeNodes(nodes)
    IN IF ~isNotEmpty(deserialized) THEN Null ELSE deserialized

(***************************************************************************)
(* Lookup, attachment, update and removal.  The tree is a value, so an     *)
(* in-place change of the node a lookup returns is the tree with that node *)
(* replaced where the lookup found it.                                     *)
(***************************************************************************)
RECURSIVE findNodeById(_, _)
\* depth-first, pre-order; NullNode when no node has the id
findNodeById(nodes, id) ==
    IF nodes = <<>> THEN NullNode
    ELSE LET node == Head(nodes)
             found == CASE node.type = "logical" -> findNodeById(node.children, id)
                        [] node.type = "embedded" -> findNodeById(node.subtree, id)
                        [] OTHER -> NullNode
         IN IF node.id = id THEN node
            ELSE IF found # NullNode THEN found
            ELSE findNodeById(Tail(nodes), id)

RECURSIVE storeNode(_, _, _, _)
\* the list after the node findNodeById(nodes, id) returns has become `new`
storeNode(nodes, i, id, new) ==
    IF i > Len(nodes) THEN [nodes |-> nodes, done |-> FALSE]
    ELSE IF nodes[i].id = id
         THEN [nodes |-> [nodes EXCEPT ![i] = new], done |-> TRUE]
    ELSE LET inner == storeNode(Kids(nodes[i]), 1, id, new)
         IN IF inner.done
            THEN [nodes |-> [nodes EXCEPT ![i] =
                               IF nodes[i].type = "logical"
                               THEN [nodes[i] EXCEPT !.children = inner.nodes]
                               ELSE [nodes[i] EXCEPT !.subtree = inner.nodes]],
                  done |-> TRUE]
            ELSE storeNode(nodes, i + 1, id, new)

\* _addNode with a parent that takes no children pushes onto whatever list
\* the parent is given
addNodeUnchecked(nodes, node, parentId) ==
    LET parent == findNodeById(nodes, parentId)
    IN IF parent = NullNode
       THEN [nodes |-> nodes, error |-> "ParentNotFound"]
       ELSE [nodes |-> storeNode(nodes, 1, parentId,
                         IF parent.type = "logical"
                         THEN [parent EXCEPT !.children = Append(@, node)]
                         ELSE IF parent.type = "embedded"
                         THEN [parent EXCEPT !.subtree = Append(@, node)]
                         ELSE [id |-> parent.id, type |-> parent.type,
                               fieldPath |-> parent.fieldPath,
                               operator |-> parent.operator,
                               value |-> parent.value,
                               subtree |-> <<node>>]).nodes,
             error |-> ""]

\* _addNode that attaches the node before it has checked the parent
addNodePushFirst(nodes, node, parentId) ==
    LET parent == findNodeById(nodes, parentId)
    IN IF parentId # NoParent
       THEN IF parent = NullNode
            THEN [nodes |-> Append(nodes, node), error |-> "ParentNotFound"]
            ELSE IF parent.type \notin {"logical", "embedded"}
            THEN [nodes |-> Append(nodes, node), error |-> "InvalidParentType"]
            ELSE [nodes |-> storeNode(nodes, 1, parentId,
                              IF parent.type = "logical"
                              THEN [parent EXCEPT !.children = Append(@, node)]
                              ELSE [parent EXCEPT !.subtree = Append(@, node)]).nodes,
                  error |-> ""]
       ELSE [nodes |-> Append(nodes, node), error |-> ""]

\* _addNode with the new node put first in the list
addNodePrepend(nodes, node, parentId) ==
    LET parent == findNodeById(nodes, parentId)
    IN IF parentId # NoParent
       THEN IF parent = NullNode
            THEN [nodes |-> nodes, error |-> "ParentNotFound"]
            ELSE IF parent.type \notin {"logical", "embedded"}
            THEN [nodes |-> nodes, error |-> "InvalidParentType"]
            ELSE [nodes |-> storeNode(nodes, 1, parentId,
                              IF parent.type = "logical"
                              THEN [parent EXCEPT !.children = <<node>> \o @]
                              ELSE [parent EXCEPT !.subtree = <<node>> \o @]).nodes,
                  error |-> ""]
       ELSE [nodes |-> <<node>> \o nodes, error |-> ""]

\* _addNode: parentId NoRef stands for the argument left out.  Returns the
\* tree afterwards and the error raised ("" when none)
addNode(nodes, node, parentId) ==
    LET parent == findNodeById(nodes, parentId)
    IN IF parentId # NoParent
       THEN IF parent = NullNode
            THEN [nodes |-> nodes, error |-> "ParentNotFound"]
            ELSE IF parent.type \notin {"logical", "embedded"}
            THEN [nodes |-> nodes, error |-> "InvalidParentType"]
            ELSE [nodes |-> storeNode(nodes, 1, parentId,
                              IF parent.type = "logical"
                              THEN [parent EXCEPT !.children = Append(@, node)]
                              ELSE [parent EXCEPT !.subtree = Append(@, node)]).nodes,
                  error |-> ""]
       ELSE [nodes |-> Append(nodes, node), error |-> ""]

\* updateConditionNode on a node of any type
updateAnyNode(nodes, id, operator, value) ==
    LET node == findNodeById(nodes, id)
    IN IF node = NullNode
       THEN [nodes |-> nodes, error |-> "NodeNotFound"]
       ELSE [nodes |-> storeNode(nodes, 1, id, [node EXCEPT !.operator = operator]).nodes,
             error |-> ""]

\* updateConditionNode taking the node out and pushing the updated node on
\* the root sequence
updateNodeMoving(nodes, id, operator, value) ==
    LET node == findNodeById(nodes, id)
        rest(list) == SelectSeq(list, LAMBDA n : n.id # id)
    IN IF node = NullNode
       THEN [nodes |-> nodes, error |-> "NodeNotFound"]
       ELSE IF node.type # "condition"
       THEN [nodes |-> nodes, error |-> "InvalidNodeType"]
       ELSE IF Len(rest(nodes)) = Len(nodes)
       THEN [nodes |-> storeNode(nodes, 1, id,
                         [node EXCEPT !.operator = operator, !.value = value]).nodes,
             error |-> ""]
       ELSE [nodes |-> Append(rest(nodes),
                         [node EXCEPT !.operator = operator, !.value = value]),
             error |-> ""]

\* updateConditionNode: the tree afterwards and the error raised
updateNode(nodes, id, operator, value) ==
    LET node == findNodeById(nodes, id)
    IN IF node = NullNode
       THEN [nodes |-> nodes, error |-> "NodeNotFound"]
       ELSE IF node.type # "condition"
       THEN [nodes |-> nodes, error |-> "InvalidNodeType"]
       ELSE [nodes |-> storeNode(nodes, 1, id,
                         [node EXCEPT !.operator = operator, !.value = value]).nodes,
             error |-> ""]

RECURSIVE removeNodeFromList(_, _)
RECURSIVE removeFrom(_, _, _)

\* the for loop of _removeNodeFromList from index i on
removeFrom(nodes, i, id) ==
    IF i > Len(nodes) THEN [nodes |-> nodes, removed |-> FALSE]
    ELSE IF nodes[i].id = id
         THEN [nodes |-> SubSeq(nodes, 1, i - 1) \o SubSeq(nodes, i + 1, Len(nodes)),
               removed |-> TRUE]
    ELSE LET inner == CASE nodes[i].type = "logical" ->
                             removeNodeFromList(nodes[i].children, id)
                        [] nodes[i].type = "embedded" ->
                             removeNodeFromList(nodes[i].subtree, id)
                        [] OTHER -> [nodes |-> <<>>, removed |-> FALSE]
         IN IF inner.removed
            THEN [nodes |-> [nodes EXCEPT ![i] =
                               IF nodes[i].type = "logical"
                               THEN [nodes[i] EXCEPT !.children = inner.nodes]
                               ELSE [nodes[i] EXCEPT !.subtree = inner.nodes]],
                  removed |-> TRUE]
            ELSE removeFrom(nodes, i + 1, id)

RECURSIVE removeKeepingKids(_, _, _)
\* a removal that leaves the removed node's children in its place
removeKeepingKids(nodes, i, id) ==
    IF i > Len(nodes) THEN [nodes |-> nodes, removed |-> FALSE]
    ELSE IF nodes[i].id = id
         THEN [nodes |-> SubSeq(nodes, 1, i - 1) \o Kids(nodes[i])
                           \o SubSeq(nodes, i + 1, Len(nodes)),
               removed |-> TRUE]
    ELSE LET inner == removeKeepingKids(Kids(nodes[i]), 1, id)
         IN IF inner.removed
            THEN [nodes |-> [nodes EXCEPT ![i] =
                               IF nodes[i].type = "logical"
                               THEN [nodes[i] EXCEPT !.children = inner.nodes]
                               ELSE [nodes[i] EXCEPT !.subtree = inner.nodes]],
                  removed |-> TRUE]
            ELSE removeKeepingKids(nodes, i + 1, id)

\* _removeNodeFromList that re-parents the children of the removed node
removeNodeReparenting(nodes, id) == removeKeepingKids(nodes, 1, id)

removeNodeFromList(nodes, id) == removeFrom(nodes, 1, id)

(***************************************************************************)
(* What deserialize() does to the tree.  The object it builds holds the    *)
(* condition nodes' own value arrays, and deepMerge writes into its        *)
(* target: an array that the result still holds under a node's identity is *)
(* that node's value afterwards.                                           *)
(***************************************************************************)
RECURSIVE aliasedArrays(_)
\* the arrays of a value, at any depth, that are some node's value
aliasedArrays(x) ==
    CASE x.t = "obj" -> UNION {aliasedArrays(x.v[i][2]) : i \in 1..Len(x.v)}
      [] x.t = "arr" -> (IF x.ref # NoRef THEN {x} ELSE {})
                          \cup UNION {aliasedArrays(x.v[i]) : i \in 1..Len(x.v)}
      [] OTHER -> {}

RECURSIVE strip(_)
\* a value as its reader sees it, without the identities of its arrays
strip(x) ==
    CASE x.t = "obj" -> Obj([i \in 1..Len(x.v) |-> <<x.v[i][1], strip(x.v[i][2])>>])
      [] x.t = "arr" -> Arr([i \in 1..Len(x.v) |-> strip(x.v[i])])
      [] OTHER -> x

RECURSIVE writeBack(_, _)
\* the tree once the arrays in `held` have been written through
writeBack(nodes, held) ==
    [i \in 1..Len(nodes) |->
        LET node == nodes[i]
        IN CASE node.type = "logical" ->
                  [node EXCEPT !.children = writeBack(@, held)]
             [] node.type = "embedded" ->
                  [node EXCEPT !.subtree = writeBack(@, held)]
             [] node.type = "condition" /\ node.value.t = "arr"
                  /\ (\E a \in held : a.ref = node.id) ->
                  [node EXCEPT !.value =
                     Arr((CHOOSE a \in held : a.ref = node.id).v)]
             [] OTHER -> node]

treeAfterDeserialize(nodes) == writeBack(nodes, aliasedArrays(deserializeNodes(nodes)))

(***************************************************************************)
(* Arguments the calls are made with.                                      *)
(***************************************************************************)
Bool(b) == [t |-> "bool", v |-> b]

CondArgs ==
    {[fieldPath |-> <<"a">>, operator |-> "$eq", value |-> Num(1)],
     [fieldPath |-> <<"a">>, operator |-> "$in", value |-> Arr(<<Num(1), Num(2)>>)]}

UpdateArgs ==
    {[operator |-> "$eq", value |-> Null],
     [operator |-> "$in", value |-> Arr(<<Num(3)>>)]}

LogicalArgs == {"$and", "$not"}

EmbeddedArgs == {[fieldPath |-> <<"a">>, operator |-> "$some"]}

\* ids a caller may name; each is one no node has until it is handed out,
\* and again once its node is removed
CallerIds == 0..(MaxIds - 1)

ParentIds == CallerIds \cup {NoParent}

Field(name, value) == Obj(<< <<name, value>> >>)

\* condition objects given to serialize and to the constructor while editing
EditQueries ==
    {Field("a", Field("$eq", Num(1))),
     Field("$not", Field("a", Field("$in", Arr(<<Num(1), Num(2)>>)))),
     Field("a", Field("$some", Field("b", Field("$eq", Num(1)))))}

(***************************************************************************)
(* The instance.                                                           *)
(***************************************************************************)
IdSeq(nodes) == LET all == NodesOf(nodes) IN [i \in 1..Len(all) |-> all[i].id]

\* constructor(query?): Undefined stands for the argument left out
Construct(q) ==
    LET s == IF q = Undefined THEN [nodes |-> <<>>, ctr |-> 0]
             ELSE serializeObject(q, <<>>, 0)
    IN /\ tree = s.nodes
       /\ idCounter = s.ctr
       /\ issued = IdSeq(s.nodes)
       /\ last = [op |-> "construct", arg |-> q, ret |-> Undefined, error |-> ""]

Serialize(q) ==
    LET s == serializeObject(q, <<>>, idCounter)
    IN /\ tree' = s.nodes
       /\ idCounter' = s.ctr
       /\ UNCHANGED query
       /\ issued' = issued \o IdSeq(s.nodes)
       /\ last' = [op |-> "serialize", arg |-> q, ret |-> Undefined, error |-> ""]

Deserialize ==
    /\ tree' = treeAfterDeserialize(tree)
    /\ last' = [op |-> "deserialize", arg |-> Undefined,
                ret |-> strip(deserialize(tree)), error |-> ""]
    /\ UNCHANGED <<idCounter, query, issued>>

FindNodeById(id) ==
    /\ last' = [op |-> "findNodeById", arg |-> Num(id),
                ret |-> findNodeById(tree, id), error |-> ""]
    /\ UNCHANGED <<tree, idCounter, query, issued>>

\* the three add* methods: the id is generated first, then _addNode runs
Add(op, newNode, parentId, g) ==
    LET r == addNode(tree, newNode, parentId)
    IN /\ tree' = r.nodes
       /\ idCounter' = g.next
       /\ issued' = Append(issued, g.id)
       /\ last' = [op |-> op, arg |-> [node |-> newNode, parentId |-> parentId],
                   ret |-> IF r.error = "" THEN Num(newNode.id) ELSE Undefined,
                   error |-> r.error]
       /\ UNCHANGED query

AddConditionNode(fieldPath, operator, value, parentId) ==
    LET g == generateId(idCounter)
    IN Add("addConditionNode", ConditionNode(g.id, fieldPath, operator, value), parentId, g)

AddLogicalNode(operator, parentId) ==
    LET g == generateId(idCounter)
    IN Add("addLogicalNode", LogicalNode(g.id, operator, <<>>), parentId, g)

AddEmbeddedNode(fieldPath, operator, parentId) ==
    LET g == generateId(idCounter)
    IN Add("addEmbeddedNode", EmbeddedNode(g.id, fieldPath, operator, <<>>), parentId, g)

UpdateConditionNode(id, operator, value) ==
    LET r == updateNode(tree, id, operator, value)
    IN /\ tree' = r.nodes
       /\ last' = [op |-> "updateConditionNode",
                   arg |-> [id |-> id, operator |-> operator, value |-> value],
                   ret |-> IF r.error = "" THEN Bool(TRUE) ELSE Undefined,
                   error |-> r.error]
       /\ UNCHANGED <<idCounter, query, issued>>

Remove(id) ==
    LET r == removeNodeFromList(tree, id)
    IN /\ tree' = r.nodes
       /\ last' = [op |-> "remove", arg |-> Num(id), ret |-> Bool(r.removed), error |-> ""]
       /\ UNCHANGED <<idCounter, query, issued>>

\* clear() that also starts the ids again
ClearResetsCounter ==
    /\ tree' = <<>>
    /\ idCounter' = 0
    /\ last' = [op |-> "clear", arg |-> Undefined, ret |-> Undefined, error |-> ""]
    /\ UNCHANGED <<query, issued>>

Clear ==
    /\ tree' = <<>>
    /\ last' = [op |-> "clear", arg |-> Undefined, ret |-> Undefined, error |-> ""]
    /\ UNCHANGED <<idCounter, query, issued>>

\* the model creates a node only while the counter is below MaxIds
CanCreate(n) == idCounter + n <= MaxIds

Init == \E q \in {Undefined} \cup EditQueries :
            /\ query = Undefined
            /\ serializeObject(q, <<>>, 0).ctr <= MaxIds
            /\ Construct(q)

Next ==
    \/ \E q \in EditQueries :
          /\ serializeObject(q, <<>>, idCounter).ctr <= MaxIds
          /\ Serialize(q)
    \/ Deserialize
    \/ \E id \in CallerIds : FindNodeById(id)
    \/ \E c \in CondArgs, p \in ParentIds :
          CanCreate(1) /\ AddConditionNode(c.fieldPath, c.operator, c.value, p)
    \/ \E o \in LogicalArgs, p \in ParentIds :
          CanCreate(1) /\ AddLogicalNode(o, p)
    \/ \E e \in EmbeddedArgs, p \in ParentIds :
          CanCreate(1) /\ AddEmbeddedNode(e.fieldPath, e.operator, p)
    \/ \E id \in CallerIds, u \in UpdateArgs : UpdateConditionNode(id, u.operator, u.value)
    \/ \E id \in CallerIds : Remove(id)
    \/ Clear

Spec == Init /\ [][Next]_vars

(***************************************************************************)
(* Round trips: a fresh instance is given one condition object of the      *)
(* documented grammar, serializes it and deserializes the result.          *)
(***************************************************************************)
\* comparison-operator mappings
CmpMaps ==
    {Field("$eq", Num(1)),
     Field("$in", Arr(<<Num(1), Num(2)>>)),
     Obj(<< <<"$gt", Num(0)>>, <<"$lt", Num(2)>> >>)}

\* condition objects without logical or embedded operators: one field with
\* a comparison mapping or a nested field mapping, or two fields
PlainQueries ==
    {Field("a", m) : m \in CmpMaps}
      \cup {Field("a", Field("b", m)) : m \in CmpMaps}
      \cup {Obj(<< <<"a", Field("$eq", Num(1))>>, <<"b", m>> >>) : m \in CmpMaps}
      \cup {Field("a", Obj(<< <<"b", Field("$eq", Num(1))>>, <<"c", Field("$eq", Num(2))>> >>))}

\* one more level of $not, $and, $or and embedded operators around c
Wrap(c) ==
    {Field("$not", c),
     Field("$and", Arr(<<c>>)),
     Field("$or", Arr(<<c, Field("b", Field("$eq", Num(2)))>>)),
     Field("t", Field("$some", c)),
     Field("a", Field("t", Field("$every", c))),
     Obj(<< <<"$not", c>>, <<"c", Field("$eq", Num(2))>> >>)}

RECURSIVE QueriesOfDepth(_)
QueriesOfDepth(d) ==
    IF d = 0 THEN PlainQueries
    ELSE LET inner == QueriesOfDepth(d - 1)
         IN inner \cup UNION {Wrap(c) : c \in inner}

RoundTripQueries == QueriesOfDepth(MaxDepth)

InitRT == query \in RoundTripQueries /\ Construct(Undefined)

NextRT ==
    \/ last.op = "construct" /\ Serialize(query)
    \/ last.op = "serialize" /\ Deserialize

SpecRT == InitRT /\ [][NextRT]_vars

(***************************************************************************)
(* Notions the properties are stated with.                                 *)
(***************************************************************************)
RECURSIVE deepEqual(_, _)
\* deep equality of two values up to the order of object keys
deepEqual(x, y) ==
    CASE x.t = "obj" /\ y.t = "obj" ->
           /\ {x.v[i][1] : i \in 1..Len(x.v)} = {y.v[i][1] : i \in 1..Len(y.v)}
           /\ \A i \in 1..Len(x.v) : deepEqual(x.v[i][2], Get(y, x.v[i][1]))
      [] x.t = "arr" /\ y.t = "arr" ->
           /\ Len(x.v) = Len(y.v)
           /\ \A i \in 1..Len(x.v) : deepEqual(x.v[i], y.v[i])
      [] OTHER -> x = y

AllNodes == LET all == NodesOf(tree) IN {all[i] : i \in 1..Len(all)}

(***************************************************************************)
(* C1 (as claimed): a fresh instance's serialize(Q) followed by            *)
(* deserialize() returns an object deeply equal to Q, up to key ordering,  *)
(* for every Q of the documented grammar without empty branches.           *)
(***************************************************************************)
C1_RoundTrip ==
    last.op = "deserialize" => deepEqual(last.ret, query)

(***************************************************************************)
(* C2: every id given to a node differs from every id the instance gave    *)
(* before, and the ids of the nodes in the tree are pairwise distinct at   *)
(* every depth, whatever calls were made (failed add* calls included).     *)
(***************************************************************************)
NoDuplicates(seq) == \A i, j \in 1..Len(seq) : seq[i] = seq[j] => i = j

C2_IdsNeverReused ==
    /\ NoDuplicates(issued)
    /\ NoDuplicates(IdSeq(tree))
    /\ IdsOf(tree) \subseteq {issued[i] : i \in 1..Len(issued)}

\* a node was added after an earlier id had left the tree or gone to a
\* failed call
C2_Witness ==
    /\ last.op \in {"addConditionNode", "addLogicalNode", "addEmbeddedNode"}
    /\ last.error = ""
    /\ Len(NodesOf(tree)) >= 2
    /\ Len(issued) > Len(NodesOf(tree))

(***************************************************************************)
(* C3 (as claimed): when an add* call or updateConditionNode raises an     *)
(* error, the tree and the id counter are what they were before the call.  *)
(***************************************************************************)
AddOps == {"addConditionNode", "addLogicalNode", "addEmbeddedNode"}

C3_FailureAtomic ==
    [][last'.error # "" => tree' = tree /\ idCounter' = idCounter]_vars

(***************************************************************************)
(* C3 (amended): when an add* call or updateConditionNode raises an error, *)
(* the tree is what it was before the call; the id counter is unchanged by *)
(* a failed updateConditionNode and is one higher after a failed add*      *)
(* call, which takes its id before it looks for the parent.                *)
(***************************************************************************)
C3_FailureLeavesTree ==
    [][last'.error # "" =>
          /\ tree' = tree
          /\ last'.op = "updateConditionNode" => idCounter' = idCounter
          /\ last'.op \in AddOps => idCounter' = idCounter + 1]_vars

\* an add* call has failed on a tree that holds nodes
C3_Witness ==
    /\ last.op \in AddOps
    /\ last.error = "InvalidParentType"
    /\ tree # <<>>

C5_UpdateOnlyConditions ==
    [][last'.op = "updateConditionNode" =>
         LET node == findNodeById(tree, last'.arg.id)
         IN /\ (last'.error = "NodeNotFound") <=> (node = NullNode)
            /\ (last'.error = "InvalidNodeType") <=> (node.type \in {"logical", "embedded"})
            /\ (last'.error = "" /\ last'.ret = Bool(TRUE)) <=> (node.type = "condition")]_vars

C5_Witness ==
    /\ last.op = "updateConditionNode"
    /\ last.error = "InvalidNodeType"
    /\ findNodeById(tree, last.arg.id).type \in {"logical", "embedded"}

(***************************************************************************)
(* C6: deserialize() returns null or a non-empty object, never {}, and it  *)
(* returns null exactly when the tree holds no condition node at any depth *)
(* (it is empty, or every root node is a container that prunes away).      *)
(***************************************************************************)
C6_NullNeverEmpty ==
    LET out == deserialize(tree)
    IN /\ out = Null \/ (out.t = "obj" /\ Len(out.v) > 0)
       /\ (out = Null) <=> (\A n \in AllNodes : n.type # "condition")
       /\ last.op = "deserialize" =>
             last.ret = Null \/ (last.ret.t = "obj" /\ Len(last.ret.v) > 0)

\* a tree of containers only has been deserialized
C6_Witness ==
    /\ last.op = "deserialize"
    /\ last.ret = Null
    /\ Len(NodesOf(tree)) >= 2

(***************************************************************************)
(* C7: remove(id) of a node in the tree returns true; afterwards the node  *)
(* and every former descendant are not found, and every other node is      *)
(* found with its fields and its place among its siblings unchanged.  When *)
(* no node has the id, remove returns false and the tree is unchanged.     *)
(***************************************************************************)
\* a node without the list it owns
Fields(n) == [k \in DOMAIN n \ {"children", "subtree"} |-> n[k]]

RECURSIVE without(_, _)
\* a list of nodes with the nodes of that id, and all below them, left out
without(nodes, id) ==
    IF nodes = <<>> THEN <<>>
    ELSE LET n == Head(nodes)
             rest == without(Tail(nodes), id)
         IN IF n.id = id THEN rest
            ELSE CASE n.type = "logical" ->
                        <<[n EXCEPT !.children = without(n.children, id)]>> \o rest
                   [] n.type = "embedded" ->
                        <<[n EXCEPT !.subtree = without(n.subtree, id)]>> \o rest
                   [] OTHER -> <<n>> \o rest

C7_RemovalCascades ==
    [][last'.op = "remove" =>
         LET id == last'.arg.v
             target == findNodeById(tree, id)
             gone == IdsOf(<<target>>)
         IN IF target # NullNode
            THEN /\ last'.ret = Bool(TRUE)
                 /\ \A d \in gone : findNodeById(tree', d) = NullNode
                 /\ \A o \in IdsOf(tree) \ gone :
                       /\ findNodeById(tree', o) # NullNode
                       /\ Fields(findNodeById(tree', o)) = Fields(findNodeById(tree, o))
                 /\ tree' = without(tree, id)
            ELSE last'.ret = Bool(FALSE) /\ tree' = tree]_vars

\* a removal has succeeded and left nodes behind, with two ids gone
C7_Witness ==
    /\ last.op = "remove"
    /\ last.ret = Bool(TRUE)
    /\ tree # <<>>
    /\ Len(issued) >= Len(NodesOf(tree)) + 2

(***************************************************************************)
(* C8: a logical or embedded node whose children/subtree are empty or all  *)
(* deserialize to nothing contributes nothing; deserialize() returns what  *)
(* it returns for the tree with all such containers removed, and its       *)
(* result holds no $not, $and, $or, $some, $every or $none key whose body  *)
(* is an empty object or an empty array.                                   *)
(***************************************************************************)
\* a container all of whose children deserialize to nothing
Prunes(n) ==
    /\ n.type \in {"logical", "embedded"}
    /\ \A i \in 1..Len(Kids(n)) : deserializeNode(Kids(n)[i]) = EmptyObj

RECURSIVE pruned(_)
\* a list of nodes with the containers that prune left out, at every depth
pruned(nodes) ==
    IF nodes = <<>> THEN <<>>
    ELSE LET n == Head(nodes)
             rest == pruned(Tail(nodes))
         IN CASE Prunes(n) -> rest
              [] n.type = "logical" -> <<[n EXCEPT !.children = pruned(n.children)]>> \o rest
              [] n.type = "embedded" -> <<[n EXCEPT !.subtree = pruned(n.subtree)]>> \o rest
              [] OTHER -> <<n>> \o rest

RECURSIVE noEmptyBody(_)
noEmptyBody(x) ==
    CASE x.t = "obj" ->
           \A i \in 1..Len(x.v) :
              /\ x.v[i][1] \in LogicalOperators \cup EmbeddedOperators =>
                    x.v[i][2].t \in {"obj", "arr"} /\ Len(x.v[i][2].v) > 0
              /\ noEmptyBody(x.v[i][2])
      [] x.t = "arr" -> \A i \in 1..Len(x.v) : noEmptyBody(x.v[i])
      [] OTHER -> TRUE

C8_ContainerPruning ==
    /\ \A n \in AllNodes : Prunes(n) => deserializeNode(n) = EmptyObj
    /\ deserialize(tree) = deserialize(pruned(tree))
    /\ noEmptyBody(deserialize(tree))

\* a container that prunes sits inside a tree that deserializes to something
C8_Witness ==
    /\ deserialize(tree) # Null
    /\ \E n \in AllNodes : Prunes(n)
    /\ \E n \in AllNodes : n.type = "logical" /\ n.operator = "$not" /\ ~Prunes(n)

(***************************************************************************)
(* C10: a successful add* call returns the new node's id; the new node is  *)
(* the last element of its parent's children or subtree list, or of the    *)
(* root sequence when no parentId is given; findNodeById of its id returns *)
(* a node of the requested type with the given fields and, for a           *)
(* container, an empty list; every older node keeps its fields and place.  *)
(***************************************************************************)
C10_AddAppends ==
    [][(last'.op \in AddOps /\ last'.error = "") =>
         LET new == last'.arg.node
             p == last'.arg.parentId
             parent == findNodeById(tree', p)
         IN /\ last'.ret = Num(new.id)
            /\ new.id \notin IdsOf(tree)
            /\ findNodeById(tree', new.id) = new
            /\ last'.op = "addConditionNode" =>
                  new.type = "condition" /\ DOMAIN new = {"id", "type", "fieldPath", "operator", "value"}
            /\ last'.op = "addLogicalNode" => new.type = "logical" /\ new.children = <<>>
            /\ last'.op = "addEmbeddedNode" => new.type = "embedded" /\ new.subtree = <<>>
            /\ p = NoParent => tree' = Append(tree, new)
            /\ p # NoParent =>
                  /\ findNodeById(tree, p).type = "logical" =>
                        parent.children = Append(findNodeById(tree, p).children, new)
                  /\ findNodeById(tree, p).type = "embedded" =>
                        parent.subtree = Append(findNodeById(tree, p).subtree, new)
            /\ \A o \in IdsOf(tree) :
                  Fields(findNodeById(tree', o)) = Fields(findNodeById(tree, o))
            /\ without(tree', new.id) = tree]_vars

\* a node has been added to a container behind an older child
C10_Witness ==
    /\ last.op \in AddOps
    /\ last.error = ""
    /\ last.arg.parentId # NoParent
    /\ Len(Kids(findNodeById(tree, last.arg.parentId))) >= 2

(***************************************************************************)
(* C9: where a field at accumulated path P maps to an embedded operator,   *)
(* serialize produces an embedded node with fieldPath P, and the           *)
(* fieldPaths of the nodes in its subtree, at any depth, are the paths     *)
(* accumulated inside the embedded body starting from the empty path: P is *)
(* not put in front of them.                                               *)
(***************************************************************************)
IsOperator(k) ==
    k \in LogicalOperators \cup EmbeddedOperators \cup ComparisonOperators

\* a field value that carries operators rather than nested fields
HoldsOperators(v) == v.t = "obj" /\ \E j \in 1..Len(v.v) : IsOperator(v.v[j][1])

RECURSIVE pathsIn(_, _)
\* the field paths a condition object gives its conditions and embedded
\* operators, read from `path` on and from the empty path inside each
\* embedded body
pathsIn(x, path) ==
    CASE x.t = "arr" -> UNION {pathsIn(x.v[i], path) : i \in 1..Len(x.v)}
      [] x.t = "obj" ->
           UNION {LET k == x.v[i][1]
                      v == x.v[i][2]
                  IN IF k \in LogicalOperators THEN pathsIn(v, path)
                     ELSE IF HoldsOperators(v)
                     THEN UNION {LET op == v.v[j][1]
                                 IN IF op \in EmbeddedOperators
                                    THEN {path \o <<k>>} \cup pathsIn(v.v[j][2], <<>>)
                                    ELSE IF op \in ComparisonOperators
                                    THEN {path \o <<k>>}
                                    ELSE IF op \in LogicalOperators
                                    THEN pathsIn(v.v[j][2], path \o <<k>>)
                                    ELSE {} : j \in 1..Len(v.v)}
                     ELSE pathsIn(v, path \o <<k>>) : i \in 1..Len(x.v)}
      [] OTHER -> {}

RECURSIVE embeddedIn(_, _)
\* the embedded operators of a condition object: each with the path
\* accumulated down to its field, its operator and its body
embeddedIn(x, path) ==
    CASE x.t = "arr" -> UNION {embeddedIn(x.v[i], path) : i \in 1..Len(x.v)}
      [] x.t = "obj" ->
           UNION {LET k == x.v[i][1]
                      v == x.v[i][2]
                  IN IF k \in LogicalOperators THEN embeddedIn(v, path)
                     ELSE IF HoldsOperators(v)
                     THEN UNION {LET op == v.v[j][1]
                                 IN IF op \in EmbeddedOperators
                                    THEN {[path |-> path \o <<k>>, operator |-> op,
                                           body |-> v.v[j][2]]}
                                           \cup embeddedIn(v.v[j][2], <<>>)
                                    ELSE IF op \in LogicalOperators
                                    THEN embeddedIn(v.v[j][2], path \o <<k>>)
                                    ELSE {} : j \in 1..Len(v.v)}
                     ELSE embeddedIn(v, path \o <<k>>) : i \in 1..Len(x.v)}
      [] OTHER -> {}

\* the fieldPaths of the nodes of a list, at any depth
FieldPathsOf(nodes) ==
    LET all == NodesOf(nodes)
    IN {all[i].fieldPath : i \in {j \in 1..Len(all) : "fieldPath" \in DOMAIN all[j]}}

C9_EmbeddedPathReset ==
    last.op = "serialize" =>
       /\ \A e \in embeddedIn(query, <<>>) :
             \E n \in AllNodes :
                /\ n.type = "embedded"
                /\ n.fieldPath = e.path
                /\ n.operator = e.operator
                /\ FieldPathsOf(n.subtree) = pathsIn(e.body, <<>>)
       /\ \A n \in AllNodes :
             n.type = "embedded" =>
                \E e \in embeddedIn(query, <<>>) :
                   /\ n.fieldPath = e.path
                   /\ n.operator = e.operator
                   /\ FieldPathsOf(n.subtree) = pathsIn(e.body, <<>>)

\* an embedded operator under a nested field, with an embedded operator
\* and a nested field inside its body
C9_Witness ==
    /\ last.op = "serialize"
    /\ \E n \in AllNodes :
          /\ n.type = "embedded"
          /\ n.fieldPath = <<"a", "t">>
          /\ \E m \in {NodesOf(n.subtree)[i] : i \in 1..Len(NodesOf(n.subtree))} :
                m.type = "embedded" /\ <<"a", "b">> \in FieldPathsOf(m.subtree)

(***************************************************************************)
(* C11: when updateConditionNode(id, operator, value) succeeds, the        *)
(* condition node with that id has the new operator and value; its id,     *)
(* type and fieldPath are unchanged; its position in its parent's list is  *)
(* unchanged; every other node of the tree and the id counter are          *)
(* unchanged.                                                              *)
(***************************************************************************)
RECURSIVE withFields(_, _, _, _)
\* a list of nodes with the operator and value of the node of that id
\* replaced, every node left where it is
withFields(nodes, id, operator, value) ==
    IF nodes = <<>> THEN <<>>
    ELSE LET n == Head(nodes)
             rest == withFields(Tail(nodes), id, operator, value)
         IN CASE n.type = "logical" ->
                   <<[n EXCEPT !.children = withFields(n.children, id, operator, value)]>>
                      \o rest
              [] n.type = "embedded" ->
                   <<[n EXCEPT !.subtree = withFields(n.subtree, id, operator, value)]>>
                      \o rest
              [] n.id = id ->
                   <<[n EXCEPT !.operator = operator, !.value = value]>> \o rest
              [] OTHER -> <<n>> \o rest

C11_UpdateFrame ==
    [][(last'.op = "updateConditionNode" /\ last'.error = "") =>
         LET id == last'.arg.id
             before == findNodeById(tree, id)
             after == findNodeById(tree', id)
         IN /\ before # NullNode /\ before.type = "condition"
            /\ after.operator = last'.arg.operator
            /\ after.value = last'.arg.value
            /\ after.id = before.id
            /\ after.type = before.type
            /\ after.fieldPath = before.fieldPath
            /\ DOMAIN after = DOMAIN before
            /\ IdSeq(tree') = IdSeq(tree)
            /\ \A o \in IdsOf(tree) \ {id} :
                  findNodeById(tree', o) = findNodeById(tree, o)
                     \/ (id \in IdsOf(<<findNodeById(tree, o)>>)
                         /\ Fields(findNodeById(tree', o)) = Fields(findNodeById(tree, o)))
            /\ tree' = withFields(tree, id, last'.arg.operator, last'.arg.value)
            /\ without(tree', id) = without(tree, id)
            /\ idCounter' = idCounter]_vars

\* a condition inside a container, behind an older sibling, has been given
\* another operator and value
C11_Witness ==
    /\ last.op = "updateConditionNode"
    /\ last.error = ""
    /\ \E n \in AllNodes :
          /\ n.type \in {"logical", "embedded"}
          /\ Len(Kids(n)) >= 2
          /\ \E i \in 2..Len(Kids(n)) :
                /\ Kids(n)[i].id = last.arg.id
                /\ Kids(n)[i].operator = last.arg.operator
                /\ Kids(n)[i].value = last.arg.value
    /\ \E m \in AllNodes : m.type = "condition" /\ m.id # last.arg.id

(***************************************************************************)
(* C12: deserialize() and findNodeById() leave the tree unchanged: for     *)
(* every reachable tree, also one in which several conditions of one       *)
(* merged list share a fieldPath and operator and hold array values, every *)
(* node's id, type, fieldPath, operator, value and child order is the same *)
(* after the call as before.                                               *)
(***************************************************************************)
C12_ReadsLeaveTree ==
    [][last'.op \in {"deserialize", "findNodeById"} => tree' = tree]_vars

(***************************************************************************)
(* C13: when two sibling condition nodes of one merged list (the root      *)
(* sequence, the children of a $not, an embedded subtree) have the same    *)
(* fieldPath and the same operator, both stay in the tree and              *)
(* deserialize() emits at that path and operator exactly the value of the  *)
(* node that comes later in the list, whether scalar, null or array.       *)
(***************************************************************************)
\* the lists whose nodes deserialize merges into one object
MergedLists ==
    {tree} \cup {Kids(n) : n \in {m \in AllNodes :
                                     \/ m.type = "embedded"
                                     \/ m.type = "logical" /\ m.operator = "$not"}}

RECURSIVE at(_, _)
\* the value found in x by following the keys of path
at(x, path) ==
    IF path = <<>> THEN x
    ELSE IF x.t = "obj" /\ HasKey(x, Head(path))
         THEN at(Get(x, Head(path)), Tail(path))
         ELSE Undefined

\* the conditions of a list that share fieldPath and operator with its
\* i-th node
SameSlot(list, i) ==
    {j \in 1..Len(list) :
        /\ list[j].type = "condition"
        /\ list[j].fieldPath = list[i].fieldPath
        /\ list[j].operator = list[i].operator}

C13_LastWins ==
    [][last'.op = "deserialize" =>
         /\ IdSeq(tree') = IdSeq(tree)
         /\ \A list \in MergedLists :
               \A i \in 1..Len(list) :
                  (list[i].type = "condition" /\ Cardinality(SameSlot(list, i)) >= 2) =>
                     LET later == CHOOSE j \in SameSlot(list, i) :
                                     \A k \in SameSlot(list, i) : k <= j
                     IN at(strip(deserializeNodes(list)),
                           list[later].fieldPath \o <<list[later].operator>>)
                           = strip(list[later].value)]_vars

====
